---------------------------- MODULE Spec2Model ----------------------------
(***************************************************************************)
(* State-machine model of the CRALK recorder.                              *)
(*                                                                         *)
(*   src/main.js           latest revision: 3 s countdown, then capture    *)
(*                         and the switch to the song start together       *)
(*   src/unnamed/part_002  pre-roll revision: capture starts after the     *)
(*                         countdown, a 3 s setTimeout then calls          *)
(*                         startSong                                       *)
(*                                                                         *)
(* The script is single-threaded: every event-listener call, timer         *)
(* callback and promise continuation runs to completion.  One action of    *)
(* the model is one such task.  The handlers are written as operators from *)
(* a snapshot of the module-level variables (the record S) to the snapshot *)
(* after the handler, so that a handler calling another (the record click  *)
(* calling stopRecording, the resumed startRecording calling startSong) is *)
(* the composition of the two operators; Commit writes the result back.    *)
(*                                                                         *)
(* Objects created per recording (AudioContext, GainNodes, MediaRecorder,  *)
(* the Audio clone) are numbered by the order in which startRecording      *)
(* builds them; objs[k] holds the state of the k-th set, and the script's  *)
(* variables hold 0 (null) or such a number.                               *)
(***************************************************************************)
EXTENDS Integers, Sequences, FiniteSets, TLC

\* ----- bounds of the model -----
\* startRecording() calls that pass the precondition checks
MaxStarts == 2
\* MediaStreams acquired or requested from getUserMedia
MaxStreams == 3
\* recordings made in the gallery specification
GalleryStarts == 12
\* chunks a recorder delivers after its stop event
MaxStray == 1

\* ----- program constants -----
\* runCountdown(3)
CountdownSeconds == 3
\* while (recordingsContainer.children.length > 10)
GalleryLimit == 10

VARIABLES
  \* Device Stream Manager
  cameraStream, currentFacing, streams, gum,
  \* lifecycle state (the script's let-variables)
  isRecording, mediaRecorder, recordedChunks, audioContext, microSource,
  songSource, microGain, songGain, destinationNode, timerInterval,
  recordingStartTime, selectedFileName, songPlaying, recordingSource, songClone,
  \* per-recording objects and live setInterval handles of updateSongTimer
  objs, intervals,
  \* DOM elements
  audioPlayer, recordButton, toggleSourceBtn, fileInput, toggleIcon,
  countdownOverlay,
  \* pending asynchronous work
  countdowns, songTimers, downloads,
  \* gallery and modal (currentModalIndex is -1 for null)
  recordingsList, recordingsContainer, urls, currentModalIndex,
  \* part_001 only: the mic switch, and the startRecording() calls awaiting
  \* audioPlayer.play()
  micEnabled, pendingPlay,
  \* history variables (not program state)
  last, err, toggles, gumRefused

vars == <<cameraStream, currentFacing, streams, gum, isRecording, mediaRecorder,
          recordedChunks, audioContext, microSource, songSource, microGain,
          songGain, destinationNode, timerInterval, recordingStartTime,
          selectedFileName, songPlaying, recordingSource, songClone, objs,
          intervals, audioPlayer, recordButton, toggleSourceBtn, fileInput,
          toggleIcon, countdownOverlay, countdowns, songTimers, downloads,
          recordingsList, recordingsContainer, urls, currentModalIndex,
          micEnabled, pendingPlay, last, err, toggles, gumRefused>>

\* The snapshot of all variables the handlers read and write.
S ==
  [cameraStream |-> cameraStream, currentFacing |-> currentFacing,
   streams |-> streams, gum |-> gum, isRecording |-> isRecording,
   mediaRecorder |-> mediaRecorder, recordedChunks |-> recordedChunks,
   audioContext |-> audioContext, microSource |-> microSource,
   songSource |-> songSource, microGain |-> microGain, songGain |-> songGain,
   destinationNode |-> destinationNode, timerInterval |-> timerInterval,
   recordingStartTime |-> recordingStartTime,
   selectedFileName |-> selectedFileName, songPlaying |-> songPlaying,
   recordingSource |-> recordingSource, songClone |-> songClone, objs |-> objs,
   intervals |-> intervals, audioPlayer |-> audioPlayer,
   recordButton |-> recordButton, toggleSourceBtn |-> toggleSourceBtn,
   fileInput |-> fileInput, toggleIcon |-> toggleIcon,
   countdownOverlay |-> countdownOverlay, countdowns |-> countdowns,
   songTimers |-> songTimers, downloads |-> downloads,
   recordingsList |-> recordingsList,
   recordingsContainer |-> recordingsContainer, urls |-> urls,
   currentModalIndex |-> currentModalIndex, micEnabled |-> micEnabled,
   pendingPlay |-> pendingPlay, last |-> last,
   err |-> err, toggles |-> toggles, gumRefused |-> gumRefused]

\* The next state is the snapshot s (evaluated once, as v).
Commit(s) ==
  \E v \in {s} :
    /\ cameraStream' = v.cameraStream
    /\ currentFacing' = v.currentFacing
    /\ streams' = v.streams
    /\ gum' = v.gum
    /\ isRecording' = v.isRecording
    /\ mediaRecorder' = v.mediaRecorder
    /\ recordedChunks' = v.recordedChunks
    /\ audioContext' = v.audioContext
    /\ microSource' = v.microSource
    /\ songSource' = v.songSource
    /\ microGain' = v.microGain
    /\ songGain' = v.songGain
    /\ destinationNode' = v.destinationNode
    /\ timerInterval' = v.timerInterval
    /\ recordingStartTime' = v.recordingStartTime
    /\ selectedFileName' = v.selectedFileName
    /\ songPlaying' = v.songPlaying
    /\ recordingSource' = v.recordingSource
    /\ songClone' = v.songClone
    /\ objs' = v.objs
    /\ intervals' = v.intervals
    /\ audioPlayer' = v.audioPlayer
    /\ recordButton' = v.recordButton
    /\ toggleSourceBtn' = v.toggleSourceBtn
    /\ fileInput' = v.fileInput
    /\ toggleIcon' = v.toggleIcon
    /\ countdownOverlay' = v.countdownOverlay
    /\ countdowns' = v.countdowns
    /\ songTimers' = v.songTimers
    /\ downloads' = v.downloads
    /\ recordingsList' = v.recordingsList
    /\ recordingsContainer' = v.recordingsContainer
    /\ urls' = v.urls
    /\ currentModalIndex' = v.currentModalIndex
    /\ micEnabled' = v.micEnabled
    /\ pendingPlay' = v.pendingPlay
    /\ last' = v.last
    /\ err' = v.err
    /\ toggles' = v.toggles
    /\ gumRefused' = v.gumRefused

\* A task begins: name it and clear the record of an uncaught exception.
Begin(s, op) == [s EXCEPT !.last = op, !.err = "none"]

\* s with element i of sequence q removed
RemoveAt(q, i) == SubSeq(q, 1, i - 1) \o SubSeq(q, i + 1, Len(q))


\* ----- initial state: the script has run to its end -----
\* initCamera() (main.js:710) has issued the first getUserMedia request; no
\* file is chosen, so the record and toggle buttons are still disabled
\* (handleFileSelection "enables the record button once a song is chosen").
Init ==
  /\ cameraStream = 0
  /\ currentFacing = "environment"
  /\ streams = <<>>
  /\ gum = <<[facing |-> "environment"]>>
  /\ isRecording = FALSE
  /\ mediaRecorder = 0
  /\ recordedChunks = <<>>
  /\ audioContext = 0
  /\ microSource = 0
  /\ songSource = 0
  /\ microGain = 0
  /\ songGain = 0
  /\ destinationNode = 0
  /\ timerInterval = 0
  /\ recordingStartTime = 0
  /\ selectedFileName = 0
  /\ songPlaying = FALSE
  /\ recordingSource = "mic"
  /\ songClone = 0
  /\ objs = <<>>
  /\ intervals = {}
  /\ audioPlayer = [src |-> 0, paused |-> TRUE, muted |-> FALSE, onended |-> FALSE,
                    currentTime |-> 0]
  /\ recordButton = [disabled |-> TRUE, recording |-> FALSE]
  /\ toggleSourceBtn = [disabled |-> TRUE]
  /\ fileInput = [disabled |-> FALSE]
  /\ toggleIcon = "mic"
  /\ countdownOverlay = "none"
  /\ countdowns = <<>>
  /\ songTimers = {}
  /\ downloads = <<>>
  /\ recordingsList = <<>>
  /\ recordingsContainer = <<>>
  /\ urls = 0
  /\ currentModalIndex = -1
  /\ micEnabled = TRUE
  /\ pendingPlay = <<>>
  /\ last = "load"
  /\ err = "none"
  /\ toggles = 0
  /\ gumRefused = FALSE

\* ===================== Device Stream Manager =====================

\* cameraStream.getTracks().forEach((track) => track.stop())
stopTracks(s) ==
  IF s.cameraStream = 0 THEN s
  ELSE [s EXCEPT !.streams[s.cameraStream].live = FALSE]

\* mutant of initCamera: the reuse branch is missing
initCameraAlwaysForce(s, force) ==
  [stopTracks(s) EXCEPT !.gum = Append(@, [facing |-> s.currentFacing])]

\* initCamera(force) up to its await of getUserMedia: reuse the held stream
\* unless forced; otherwise stop the held stream's tracks and request a new
\* stream with the facing mode current at the time of the call.
initCamera(s, force) ==
  IF s.cameraStream # 0 /\ ~force THEN s
  ELSE [stopTracks(s) EXCEPT !.gum = Append(@, [facing |-> s.currentFacing])]

\* initCamera after the await: request i settles.  Granted: the new stream
\* is assigned to cameraStream.  Refused: the catch block alerts.
initCameraResume(s, i, granted) ==
  LET rest == [s EXCEPT !.gum = RemoveAt(@, i)] IN
  IF granted
  THEN [rest EXCEPT !.streams = Append(@, [live |-> TRUE, facing |-> s.gum[i].facing]),
                    !.cameraStream = Len(s.streams) + 1]
  ELSE [rest EXCEPT !.err = "alert:camera", !.gumRefused = TRUE]

switchCamera(s) ==
  initCamera([s EXCEPT !.currentFacing =
                IF @ = "user" THEN "environment" ELSE "user"], TRUE)

\* showRecorder: the preview reuses the held stream, else initCamera()
showRecorder(s) ==
  IF s.cameraStream # 0 THEN s ELSE initCamera(s, FALSE)


\* ===================== Source-Switch Protocol =====================

\* setInterval returns a handle that no live interval has
newInterval(live) ==
  CHOOSE i \in 1..(Cardinality(live) + 1) :
    i \notin live /\ \A j \in 1..(i - 1) : j \in live

\* songClone.play(): the clone plays when it has a source
playClone(s) ==
  IF s.songClone = 0 \/ s.objs[s.songClone].cloneSrc = 0 THEN s
  ELSE [s EXCEPT !.objs[s.songClone].clone = "playing"]

\* mutant of switchToSong: the mic is left in the recording
switchToSongKeepsMic(s) ==
  [s EXCEPT !.objs[s.songGain].song = 1, !.objs[s.songGain].switched = TRUE]

\* microGain.gain.value = 0; songGain.gain.value = 1 (both nodes held)
switchToSong(s) ==
  [s EXCEPT !.objs[s.microGain].micro = 0,
            !.objs[s.songGain].song = 1,
            !.objs[s.songGain].switched = TRUE]

\* mutant of songStarted: the tracked source is not set to the song
songStartedKeepsSource(s) ==
  LET live == s.intervals \ {s.timerInterval} IN
  [s EXCEPT !.songPlaying = TRUE,
            !.timerInterval = newInterval(live),
            !.intervals = live \cup {newInterval(live)},
            !.audioPlayer.onended = TRUE,
            !.toggleSourceBtn.disabled = FALSE,
            !.toggleIcon = "note",
            !.toggles = 0]

\* startSong(), from the timer interval to its end: the song timer, the
\* onended handler, the toggle button and icons, recordingSource
songStarted(s) ==
  LET live == s.intervals \ {s.timerInterval} IN
  [s EXCEPT !.songPlaying = TRUE,
            !.timerInterval = newInterval(live),
            !.intervals = live \cup {newInterval(live)},
            !.audioPlayer.onended = TRUE,
            !.toggleSourceBtn.disabled = FALSE,
            !.toggleIcon = "note",
            !.recordingSource = "song",
            !.toggles = 0]

\* if (songClone) songClone.currentTime = 0
rewindClone(s) ==
  IF s.songClone = 0 THEN s ELSE [s EXCEPT !.objs[s.songClone].cloneTime = 0]

\* startSong() of main.js.  The statements before the first gain write have
\* run when that write throws on a null microGain or songGain.
startSong(s) ==
  IF s.audioPlayer.src = 0 THEN s
  ELSE
    LET s1 == rewindClone([s EXCEPT !.audioPlayer.currentTime = 0,
                                    !.audioPlayer.muted = FALSE]) IN
    IF s.microGain = 0 THEN [s1 EXCEPT !.err = "TypeError"]
    ELSE IF s.songGain = 0
    THEN [s1 EXCEPT !.objs[s.microGain].micro = 0, !.err = "TypeError"]
    ELSE songStarted(playClone(switchToSong(s1)))

\* mutant of swapSource: every toggle switches to the mic
swapSourceOneWay(s) ==
  IF s.microGain = 0 THEN [s EXCEPT !.err = "TypeError"]
  ELSE IF s.songGain = 0
  THEN [s EXCEPT !.objs[s.microGain].micro = 1, !.err = "TypeError"]
  ELSE [s EXCEPT !.objs[s.microGain].micro = 1,
                 !.objs[s.songGain].song = 0,
                 !.recordingSource = "mic",
                 !.toggleIcon = "mic"]

\* toggleSource() past its guard: swap the two gains and the tracked source.
\* The first gain write throws on a null microGain, the second on a null
\* songGain.
swapSource(s) ==
  IF s.microGain = 0 THEN [s EXCEPT !.err = "TypeError"]
  ELSE IF s.recordingSource = "song"
  THEN IF s.songGain = 0
       THEN [s EXCEPT !.objs[s.microGain].micro = 1, !.err = "TypeError"]
       ELSE [s EXCEPT !.objs[s.microGain].micro = 1,
                      !.objs[s.songGain].song = 0,
                      !.recordingSource = "mic",
                      !.toggleIcon = "mic"]
  ELSE IF s.songGain = 0
       THEN [s EXCEPT !.objs[s.microGain].micro = 0, !.err = "TypeError"]
       ELSE [s EXCEPT !.objs[s.microGain].micro = 0,
                      !.objs[s.songGain].song = 1,
                      !.recordingSource = "song",
                      !.toggleIcon = "note"]

\* mutant of toggleSource: the isRecording guard is missing
toggleSourceUnguarded(s) == swapSource(s)

\* toggleSource()
toggleSource(s) == IF ~s.isRecording THEN s ELSE swapSource(s)

\* ===================== Capture Session / Lifecycle =====================

\* handleFileSelection(event): f = 0 is a change event with no file
handleFileSelection(s, f) ==
  IF f = 0
  THEN [s EXCEPT !.selectedFileName = 0,
                 !.recordButton.disabled = TRUE,
                 !.toggleSourceBtn.disabled = TRUE,
                 !.audioPlayer.src = 0]
  ELSE [s EXCEPT !.selectedFileName = f,
                 !.audioPlayer.src = f,
                 !.audioPlayer.paused = TRUE,
                 !.audioPlayer.currentTime = 0,
                 !.recordButton.disabled = FALSE,
                 !.toggleSourceBtn.disabled = TRUE]

\* runCountdown(seconds) up to the first interval tick
runCountdown(s) ==
  [s EXCEPT !.countdownOverlay = "flex",
            !.countdowns = Append(@, CountdownSeconds)]

\* mutant of startRecording: the check of audioPlayer.src is missing
startRecordingNoSongCheck(s) ==
  IF s.isRecording THEN s
  ELSE IF s.cameraStream = 0 THEN [s EXCEPT !.err = "alert:camera"]
  ELSE runCountdown([s EXCEPT !.audioPlayer.currentTime = 0,
                              !.audioPlayer.muted = TRUE,
                              !.audioPlayer.paused = FALSE])

\* startRecording() of main.js up to its await
startRecording(s) ==
  IF s.isRecording THEN s
  ELSE IF s.cameraStream = 0 THEN [s EXCEPT !.err = "alert:camera"]
  ELSE IF s.audioPlayer.src = 0 THEN [s EXCEPT !.err = "alert:song"]
  ELSE runCountdown([s EXCEPT !.audioPlayer.currentTime = 0,
                              !.audioPlayer.muted = TRUE,
                              !.audioPlayer.paused = FALSE])

\* The objects one startRecording() builds, in their state right after
\* mediaRecorder.start(): micro gain 1, song gain 0, clone not playing.
\* stopped, finals, switched and data are history: a stopRecording() ran
\* after the start, the number of handleStop runs the recorder's stop event
\* caused, startSong has switched this graph to the song, and the sizes of
\* the chunks the encoder has delivered.  bound and enc are the outcomes of
\* createMediaElementSource and of the MediaRecorder constructors ("unset"
\* until the constructors are reached).  stream is the device stream whose
\* tracks the graph and the recorder were built on (cameraStream at 303, 331).
\* mergeCtx is the context of mergeAudioStreams, which only part_001 has.
newObjects(s) ==
  [ctx |-> "open", rec |-> "recording", micro |-> 1, song |-> 0,
   clone |-> "paused", cloneSrc |-> s.audioPlayer.src, cloneTime |-> 0,
   stopped |-> FALSE, finals |-> 0, switched |-> FALSE, data |-> <<>>,
   bound |-> TRUE, enc |-> "preferred", stream |-> s.cameraStream,
   mergeCtx |-> "none"]

\* startRecording() of main.js, lines 293-351: build the graph and the
\* recorder and start capture
buildAndStart(s) ==
  LET k == Len(s.objs) + 1 IN
  [s EXCEPT !.objs = Append(@, newObjects(s)),
            !.recordedChunks = <<>>,
            !.recordingStartTime = k,
            !.recordingSource = "mic",
            !.toggleIcon = "mic",
            !.audioContext = k,
            !.microSource = k,
            !.microGain = k,
            !.songClone = k,
            !.songSource = k,
            !.songGain = k,
            !.destinationNode = k,
            !.mediaRecorder = k,
            !.isRecording = TRUE,
            !.recordButton.recording = TRUE,
            !.fileInput.disabled = TRUE,
            !.toggleSourceBtn.disabled = TRUE]

\* startRecording() of main.js after the await: capture starts and the song
\* replaces the mic at once
startRecordingResume(s) == startSong(buildAndStart(s))

\* mutant of buildGraph: songSource.connect(songGain) without the null check
buildGraphUnguardedConnect(s, bound) ==
  LET k == Len(s.objs) + 1 IN
  [s EXCEPT !.objs = Append(@, [newObjects(s) EXCEPT !.rec = "none", !.bound = bound,
                                                     !.enc = "unset"]),
            !.recordedChunks = <<>>,
            !.recordingStartTime = k,
            !.recordingSource = "mic",
            !.toggleIcon = "mic",
            !.audioContext = k,
            !.microSource = k,
            !.microGain = k,
            !.songClone = k,
            !.songSource = IF bound THEN k ELSE 0,
            !.songGain = k,
            !.destinationNode = IF bound THEN k ELSE s.destinationNode,
            !.err = IF bound THEN s.err ELSE "TypeError"]

\* startRecording() of main.js, lines 293-329: the AudioContext, the mic
\* path, the clone and the song path.  bound: createMediaElementSource
\* succeeds; when it throws, the catch block sets songSource to null and the
\* song gain is built with nothing connected to it.
buildGraph(s, bound) ==
  LET k == Len(s.objs) + 1 IN
  [s EXCEPT !.objs = Append(@, [newObjects(s) EXCEPT !.rec = "none", !.bound = bound,
                                                     !.enc = "unset"]),
            !.recordedChunks = <<>>,
            !.recordingStartTime = k,
            !.recordingSource = "mic",
            !.toggleIcon = "mic",
            !.audioContext = k,
            !.microSource = k,
            !.microGain = k,
            !.songClone = k,
            !.songSource = IF bound THEN k ELSE 0,
            !.songGain = k,
            !.destinationNode = k]

\* the outcomes of the two MediaRecorder constructors: the preferred profile
\* is accepted, only the default one is, or neither is
EncoderOutcomes == {"preferred", "default", "none"}

\* mutant of startEncoder: no retry with the default profile
startEncoderNoFallback(s, enc) ==
  LET k == Len(s.objs) IN
  IF enc # "preferred" THEN [s EXCEPT !.objs[k].enc = enc, !.err = "NotSupportedError"]
  ELSE [s EXCEPT !.objs[k].rec = "recording",
                 !.objs[k].enc = enc,
                 !.mediaRecorder = k,
                 !.isRecording = TRUE,
                 !.recordButton.recording = TRUE,
                 !.fileInput.disabled = TRUE,
                 !.toggleSourceBtn.disabled = TRUE]

\* startRecording() of main.js, lines 330-351: construct the recorder with
\* the preferred profile, on an exception with the default one, install the
\* handlers and start.  An exception of the second constructor leaves the
\* function.
startEncoder(s, enc) ==
  LET k == Len(s.objs) IN
  IF enc = "none" THEN [s EXCEPT !.objs[k].enc = enc, !.err = "NotSupportedError"]
  ELSE [s EXCEPT !.objs[k].rec = "recording",
                 !.objs[k].enc = enc,
                 !.mediaRecorder = k,
                 !.isRecording = TRUE,
                 !.recordButton.recording = TRUE,
                 !.fileInput.disabled = TRUE,
                 !.toggleSourceBtn.disabled = TRUE]

\* startRecording() of main.js after the await, with the outcomes of the
\* constructions; an exception ends the function
startRecordingResumeWith(s, bound, enc) ==
  LET g == buildGraph(s, bound) IN
  IF g.err # "none" THEN g
  ELSE LET e == startEncoder(g, enc) IN
       IF e.err # "none" THEN e ELSE startSong(e)

countdownTickWith(s, i, bound, enc) ==
  IF s.countdowns[i] - 1 > 0
  THEN [s EXCEPT !.countdowns[i] = @ - 1]
  ELSE startRecordingResumeWith([s EXCEPT !.countdowns = RemoveAt(@, i),
                                          !.countdownOverlay = "none"], bound, enc)

\* one tick of runCountdown's interval for the i-th pending countdown; the
\* last tick resolves the promise and startRecording resumes in the same task
countdownTick(s, i) ==
  IF s.countdowns[i] - 1 > 0
  THEN [s EXCEPT !.countdowns[i] = @ - 1]
  ELSE startRecordingResume([s EXCEPT !.countdowns = RemoveAt(@, i),
                                      !.countdownOverlay = "none"])

\* mediaRecorder.stop() when a recorder is held and not inactive: the recorder
\* becomes inactive and its stop event is queued
stopRecorder(s) ==
  IF s.mediaRecorder # 0 /\ s.objs[s.mediaRecorder].rec = "recording"
  THEN [s EXCEPT !.objs[s.mediaRecorder].rec = "stopping"]
  ELSE s

\* mutant of stopRecording: the check of isRecording is missing
stopRecordingUnguarded(s) ==
  LET s1 == [s EXCEPT !.intervals = @ \ {s.timerInterval},
                      !.timerInterval = 0,
                      !.audioPlayer.paused = TRUE,
                      !.audioPlayer.currentTime = 0,
                      !.toggleSourceBtn.disabled = TRUE,
                      !.recordButton.recording = FALSE,
                      !.fileInput.disabled = FALSE]
      s2 == IF s.songClone = 0 THEN s1
            ELSE [s1 EXCEPT !.objs[s.songClone].clone = "paused",
                            !.objs[s.songClone].cloneTime = 0]
      s3 == stopRecorder(s2)
  IN [s3 EXCEPT !.isRecording = FALSE,
                !.objs = [k \in DOMAIN @ |-> [@[k] EXCEPT !.stopped = TRUE]]]

\* stopRecording()
stopRecording(s) ==
  IF ~s.isRecording THEN s
  ELSE
    LET s1 == [s EXCEPT !.intervals = @ \ {s.timerInterval},
                        !.timerInterval = 0,
                        !.audioPlayer.paused = TRUE,
                        !.audioPlayer.currentTime = 0,
                        !.toggleSourceBtn.disabled = TRUE,
                        !.recordButton.recording = FALSE,
                        !.fileInput.disabled = FALSE]
        s2 == IF s.songClone = 0 THEN s1
              ELSE [s1 EXCEPT !.objs[s.songClone].clone = "paused",
                              !.objs[s.songClone].cloneTime = 0]
        s3 == stopRecorder(s2)
    IN [s3 EXCEPT !.isRecording = FALSE,
                  !.objs = [k \in DOMAIN @ |-> [@[k] EXCEPT !.stopped = TRUE]]]

\* mediaRecorder.ondataavailable for a chunk of recorder k
ondataavailable(s, k, size) ==
  IF size > 0 THEN [s EXCEPT !.recordedChunks = Append(@, k)] ELSE s


\* recordingsList.shift()
shift(q) == IF q = <<>> THEN q ELSE Tail(q)

\* mutant of limitGallery: recordingsList is not shifted with the container
RECURSIVE limitGalleryKeepsList(_)
limitGalleryKeepsList(s) ==
  IF Len(s.recordingsContainer) > GalleryLimit
  THEN limitGalleryKeepsList([s EXCEPT !.recordingsContainer = Tail(@)])
  ELSE s

\* while (recordingsContainer.children.length > 10): remove the first child
\* and shift recordingsList
RECURSIVE limitGallery(_)
limitGallery(s) ==
  IF Len(s.recordingsContainer) > GalleryLimit
  THEN limitGallery([s EXCEPT !.recordingsContainer = Tail(@),
                              !.recordingsList = shift(@)])
  ELSE s

\* handleStop() of main.js, lines 405-451: assemble the blob, push the entry
\* and the gallery item, evict beyond the limit.  The object URL is the count
\* of URLs created so far; the duration is kept as the start timestamp it is
\* computed from.
addRecording(s) ==
  LET url == s.urls + 1
      entry == [url |-> url, fileName |-> s.selectedFileName,
                start |-> s.recordingStartTime, blob |-> s.recordedChunks]
      item == [url |-> url, recIndex |-> Len(s.recordingsList)]
  IN limitGallery([s EXCEPT !.urls = url,
                            !.recordingsList = Append(@, entry),
                            !.recordingsContainer = Append(@, item)])

\* handleStop() of main.js, lines 456-485: close the context the script
\* holds and null the graph, the recorder and the clone
teardown(s) ==
  LET s1 == IF s.audioContext = 0 THEN s
            ELSE [s EXCEPT !.objs[s.audioContext].ctx = "closed"]
  IN [s1 EXCEPT !.audioContext = 0,
                !.microSource = 0,
                !.songSource = 0,
                !.microGain = 0,
                !.songGain = 0,
                !.destinationNode = 0,
                !.mediaRecorder = 0,
                !.songPlaying = FALSE,
                !.songClone = 0,
                !.toggleIcon = "mic",
                !.toggleSourceBtn.disabled = TRUE]

\* handleStop() of main.js
handleStop(s) == teardown(showRecorder(addRecording(s)))

\* delete-all click
deleteAll(s) ==
  [s EXCEPT !.recordingsContainer = <<>>, !.recordingsList = <<>>]

\* download-all click: one timer per entry of recordingsList, then the timer
\* that clears the gallery.  A batch holds the URLs its timers download, in
\* order, and the number of download timers that have fired.
downloadAll(s) ==
  IF s.recordingsList = <<>> THEN s
  ELSE [s EXCEPT !.downloads =
          Append(@, [urls |-> [i \in 1..Len(s.recordingsList) |-> s.recordingsList[i].url],
                     done |-> 0])]

\* the next timer of batch b fires: a download, or after the last download
\* the clear of the gallery
downloadTimer(s, b) ==
  IF s.downloads[b].done < Len(s.downloads[b].urls)
  THEN [s EXCEPT !.downloads[b].done = @ + 1]
  ELSE deleteAll([s EXCEPT !.downloads = RemoveAt(@, b)])

\* ===================== tasks of main.js =====================

Ids == 1..Len(objs)

\* record-button click listener
RecordClick(limit) ==
  /\ ~recordButton.disabled
  /\ isRecording \/ Len(objs) + Len(countdowns) < limit
  /\ Commit(IF ~isRecording THEN startRecording(Begin(S, "startRecording"))
            ELSE stopRecording(Begin(S, "stopRecording")))

\* runCountdown's setInterval callback.  The intervals all last one second,
\* so a countdown started earlier never has more ticks left than a later one.
CountdownTick ==
  \E i \in 1..Len(countdowns) :
    /\ \A j \in 1..(i - 1) : countdowns[j] < countdowns[i]
    /\ Commit(countdownTick(Begin(S, "countdown"), i))

\* toggle-button click listener.  toggles counts, modulo 2, the calls of
\* toggleSource() since startSong last switched to the song.
ToggleClick ==
  /\ ~toggleSourceBtn.disabled
  /\ Commit([toggleSource(Begin(S, "toggleSource")) EXCEPT !.toggles = 1 - toggles])

\* The music reaches its end: the element pauses and fires ended, handled by
\* the onended handler startSong installed.
AudioEnded ==
  /\ ~audioPlayer.paused
  /\ LET s == [Begin(S, "ended") EXCEPT !.audioPlayer.paused = TRUE,
                                        !.audioPlayer.currentTime = 1] IN
     Commit(IF s.audioPlayer.onended /\ s.isRecording
            THEN stopRecording(s) ELSE s)

\* Playback advances: every playing element is past position 0.  Positions
\* are 0 (the start) or 1 (past the start).
timeUpdate(s) ==
  [s EXCEPT !.audioPlayer.currentTime = IF s.audioPlayer.paused THEN @ ELSE 1,
            !.objs = [k \in DOMAIN @ |->
                        IF @[k].clone = "playing" THEN [@[k] EXCEPT !.cloneTime = 1]
                        ELSE @[k]]]

TimeUpdate ==
  /\ timeUpdate(S) # S
  /\ Commit(timeUpdate(Begin(S, "timeupdate")))

\* The task a MediaRecorder queues on stop(): dataavailable with the data
\* gathered, then stop, both for recorder k.
RecorderStopped(sizes) ==
  \E k \in Ids, size \in sizes :
    /\ objs[k].rec = "stopping"
    /\ LET s == ondataavailable(Begin(S, "handleStop"), k, size) IN
       Commit(handleStop([s EXCEPT !.objs[k].rec = "finalized",
                                   !.objs[k].finals = @ + 1,
                                   !.objs[k].data = Append(@, size)]))

\* change event of the file input: no file (0) or a file (1); the script
\* treats all files alike
FileChoices == {0, 1}

FileChange ==
  \E f \in FileChoices :
    /\ ~fileInput.disabled
    /\ Commit(handleFileSelection(Begin(S, "handleFileSelection"), f))

\* a getUserMedia request settles
GumSettles ==
  \E i \in 1..Len(gum), granted \in BOOLEAN :
    Commit(initCameraResume(Begin(S, "initCamera"), i, granted))

\* switch-camera click listener
SwitchCameraClick ==
  /\ Len(streams) + Len(gum) < MaxStreams
  /\ Commit(switchCamera(Begin(S, "switchCamera")))

\* swipe back to the recorder view
SwipeToRecorder ==
  /\ Len(streams) + Len(gum) < MaxStreams
  /\ Commit(showRecorder(Begin(S, "showRecorder")))

DeleteAllClick == Commit(deleteAll(Begin(S, "deleteAll")))

\* one batch of download timers at a time
DownloadAllClick ==
  /\ downloads = <<>>
  /\ Commit(downloadAll(Begin(S, "downloadAll")))

DownloadTimer ==
  \E b \in 1..Len(downloads) : Commit(downloadTimer(Begin(S, "downloadTimer"), b))

\* the data of a stop may be empty (0) or not (1)
ChunkSizes == {0, 1}

\* ----- main.js: the recording lifecycle -----
Next ==
  \/ RecordClick(MaxStarts)
  \/ CountdownTick
  \/ ToggleClick
  \/ AudioEnded
  \/ TimeUpdate
  \/ RecorderStopped(ChunkSizes)
  \/ FileChange
  \/ GumSettles

Spec == Init /\ [][Next]_vars


\* ----- main.js: startRecording() without a file -----
\* startRecording() is called while no file is selected.  The record button
\* is disabled in these states, so the click listener does not run; the call
\* exercises the function's own check of audioPlayer.src.
StartRecordingCall ==
  /\ audioPlayer.src = 0
  /\ Commit(startRecording(Begin(S, "startRecording")))

NextNoFile ==
  \/ Next
  \/ StartRecordingCall

SpecNoFile == Init /\ [][NextNoFile]_vars

\* ----- main.js: stopRecording() with nothing recording -----
\* stopRecording() is called while isRecording is false.  The click listener
\* and the onended handler call it only while recording; the call exercises
\* the function's own check of isRecording.
StopRecordingCall ==
  /\ ~isRecording
  /\ Commit(stopRecording(Begin(S, "stopRecording")))

NextStop ==
  \/ Next
  \/ StopRecordingCall

SpecStop == Init /\ [][NextStop]_vars

\* ----- main.js: the recording lifecycle with camera switching -----
\* Every task that decides whether and when capture starts, and on what:
\* clicks, countdown ticks, file changes, camera requests and switches.
NextStart ==
  \/ RecordClick(MaxStarts)
  \/ CountdownTick
  \/ RecorderStopped({1})
  \/ FileChange
  \/ GumSettles
  \/ SwitchCameraClick

SpecStart == Init /\ [][NextStart]_vars

\* ----- main.js: record clicks while no stream is held -----
\* The first request may be refused; a swipe back to the recorder view
\* requests a stream again while none is held.
NextNotReady ==
  \/ RecordClick(MaxStarts)
  \/ CountdownTick
  \/ RecorderStopped({1})
  \/ FileChange
  \/ GumSettles
  \/ SwipeToRecorder

SpecNotReady == Init /\ [][NextNotReady]_vars

\* ----- main.js: the Device Stream Manager alone -----
NextCamera ==
  \/ SwitchCameraClick
  \/ SwipeToRecorder
  \/ GumSettles
  \/ FileChange

SpecCamera == Init /\ [][NextCamera]_vars

\* ----- main.js: the gallery over many recordings -----
\* One recording at a time (no click during a countdown), every stop with
\* data, so that more than GalleryLimit recordings are made.
RecordClickAlone ==
  /\ countdowns = <<>>
  /\ \A k \in Ids : objs[k].rec = "finalized"
  /\ RecordClick(GalleryStarts)

RecordClickStop ==
  /\ isRecording
  /\ RecordClick(GalleryStarts)

\* the first choice of a file
FirstFileChange ==
  /\ audioPlayer.src = 0
  /\ FileChange

NextGallery ==
  \/ RecordClickAlone
  \/ RecordClickStop
  \/ CountdownTick
  \/ RecorderStopped({1})
  \/ FirstFileChange
  \/ GumSettles
  \/ DeleteAllClick
  \/ DownloadAllClick
  \/ DownloadTimer

SpecGallery == Init /\ [][NextGallery]_vars

\* ----- main.js: sessions left to end by themselves -----
\* The user chooses a file once and starts sessions one at a time, and never
\* stops or toggles.  A running countdown interval fires, a playing track
\* reaches its end and a queued stop event is delivered: weak fairness of
\* these three tasks.
RecordClickStartOnly ==
  /\ ~isRecording
  /\ RecordClickAlone

NextAuto ==
  \/ RecordClickStartOnly
  \/ CountdownTick
  \/ AudioEnded
  \/ TimeUpdate
  \/ RecorderStopped({1})
  \/ FirstFileChange
  \/ GumSettles

SpecAuto ==
  /\ Init /\ [][NextAuto]_vars
  /\ WF_vars(CountdownTick)
  /\ WF_vars(AudioEnded)
  /\ WF_vars(RecorderStopped({1}))

\* ----- main.js: chunks delivered after the stop event -----
\* Sessions are made one at a time.  A recorder whose stop event has been
\* handled delivers one more dataavailable event, empty or not.
RecordClickSerial ==
  /\ isRecording \/ (countdowns = <<>> /\ \A k \in Ids : objs[k].rec \in {"finalized", "none"})
  /\ RecordClick(MaxStarts)

StrayChunk ==
  \E k \in Ids, size \in ChunkSizes :
    /\ objs[k].rec = "finalized"
    /\ Len(objs[k].data) < 1 + MaxStray
    /\ LET s == ondataavailable(Begin(S, "dataavailable"), k, size) IN
       Commit([s EXCEPT !.objs[k].data = Append(@, size)])

NextStray ==
  \/ RecordClickSerial
  \/ CountdownTick
  \/ RecorderStopped(ChunkSizes)
  \/ StrayChunk
  \/ FirstFileChange
  \/ GumSettles

SpecStray == Init /\ [][NextStray]_vars

\* ----- main.js: sessions whose constructions may fail -----
\* The last tick of a countdown resumes startRecording() with any outcome of
\* createMediaElementSource and of the MediaRecorder constructors.
CountdownTickWith ==
  \E i \in 1..Len(countdowns), bound \in BOOLEAN, enc \in EncoderOutcomes :
    /\ \A j \in 1..(i - 1) : countdowns[j] < countdowns[i]
    \* the outcomes matter on the last tick only
    /\ countdowns[i] = 1 \/ (bound /\ enc = "preferred")
    /\ Commit(countdownTickWith(Begin(S, "countdown"), i, bound, enc))

NextBuild ==
  \/ RecordClickSerial
  \/ CountdownTickWith
  \/ ToggleClick
  \/ AudioEnded
  \/ RecorderStopped(ChunkSizes)
  \/ FirstFileChange
  \/ GumSettles

SpecBuild == Init /\ [][NextBuild]_vars

\* ----- main.js: a new start before the previous stop event -----
\* A start is requested only while no countdown is pending and no recorder is
\* capturing, so no two sessions capture at once; the previous recorder's stop
\* event may still be outstanding.
RecordClickRestart ==
  /\ isRecording \/ (countdowns = <<>> /\ \A k \in Ids : objs[k].rec # "recording")
  /\ RecordClick(MaxStarts)

NextRestart ==
  \/ RecordClickRestart
  \/ CountdownTick
  \/ ToggleClick
  \/ AudioEnded
  \/ TimeUpdate
  \/ RecorderStopped(ChunkSizes)
  \/ FirstFileChange
  \/ GumSettles

SpecRestart == Init /\ [][NextRestart]_vars

\* ----- main.js: a start beside a session left capturing -----
\* One start more than in Spec: two overlapping sessions, then a further
\* start request.
NextOverlap ==
  \/ RecordClick(MaxStarts + 1)
  \/ CountdownTick
  \/ RecorderStopped({1})
  \/ FirstFileChange
  \/ GumSettles

SpecOverlap == Init /\ [][NextOverlap]_vars

\* ----- main.js: the reuse of a held stream -----
\* initCamera() called without force while a stream is held: the contract of
\* its reuse branch (the listeners reach initCamera() only with no stream).
InitCameraCall ==
  /\ cameraStream # 0
  /\ Commit(initCamera(Begin(S, "initCameraCall"), FALSE))

NextReuse ==
  \/ InitCameraCall
  \/ SwipeToRecorder
  \/ SwitchCameraClick
  \/ GumSettles
  \/ FirstFileChange
  \/ RecordClickSerial
  \/ CountdownTick
  \/ RecorderStopped({1})

SpecReuse == Init /\ [][NextReuse]_vars

\* ===================== src/unnamed/part_002 (pre-roll revision) =====================

\* startSong() of part_002: as in main.js, but it starts the visible player
\* itself and leaves its muted flag alone
startSongPreRoll(s) ==
  IF s.audioPlayer.src = 0 THEN s
  ELSE
    LET s1 == rewindClone([s EXCEPT !.audioPlayer.currentTime = 0]) IN
    IF s.microGain = 0 THEN [s1 EXCEPT !.err = "TypeError"]
    ELSE IF s.songGain = 0
    THEN [s1 EXCEPT !.objs[s.microGain].micro = 0, !.err = "TypeError"]
    ELSE songStarted(playClone([switchToSong(s1) EXCEPT !.audioPlayer.paused = FALSE]))

\* startRecording() of part_002 up to its await: no priming of the player
startRecordingPreRoll(s) ==
  IF s.isRecording THEN s
  ELSE IF s.cameraStream = 0 THEN [s EXCEPT !.err = "alert:camera"]
  ELSE IF s.audioPlayer.src = 0 THEN [s EXCEPT !.err = "alert:song"]
  ELSE runCountdown(s)

\* startRecording() of part_002 after the await: capture starts with the mic
\* and setTimeout(startSong, 3000) is armed; the timer is named by the
\* recording that armed it
startRecordingResumePreRoll(s) ==
  [buildAndStart(s) EXCEPT !.songTimers = @ \cup {Len(s.objs) + 1}]

countdownTickPreRoll(s, i) ==
  IF s.countdowns[i] - 1 > 0
  THEN [s EXCEPT !.countdowns[i] = @ - 1]
  ELSE startRecordingResumePreRoll([s EXCEPT !.countdowns = RemoveAt(@, i),
                                             !.countdownOverlay = "none"])

\* handleStop() of part_002, lines 353-440: the gallery is the DOM container
\* only
addRecordingPreRoll(s) ==
  LET url == s.urls + 1 IN
  limitGallery([s EXCEPT !.urls = url,
                         !.recordingsContainer = Append(@, [url |-> url, recIndex |-> 0])])

handleStopPreRoll(s) == teardown(showRecorder(addRecordingPreRoll(s)))

RecordClickPreRoll(limit) ==
  /\ ~recordButton.disabled
  /\ isRecording \/ Len(objs) + Len(countdowns) < limit
  /\ Commit(IF ~isRecording THEN startRecordingPreRoll(Begin(S, "startRecording"))
            ELSE stopRecording(Begin(S, "stopRecording")))

CountdownTickPreRoll ==
  \E i \in 1..Len(countdowns) :
    /\ \A j \in 1..(i - 1) : countdowns[j] < countdowns[i]
    /\ Commit(countdownTickPreRoll(Begin(S, "countdown"), i))

\* the setTimeout callback armed by recording k fires
SongTimerFires ==
  \E k \in songTimers :
    Commit(startSongPreRoll([Begin(S, "startSong") EXCEPT !.songTimers = @ \ {k}]))

RecorderStoppedPreRoll(sizes) ==
  \E k \in Ids, size \in sizes :
    /\ objs[k].rec = "stopping"
    /\ LET s == ondataavailable(Begin(S, "handleStop"), k, size) IN
       Commit(handleStopPreRoll([s EXCEPT !.objs[k].rec = "finalized",
                                          !.objs[k].finals = @ + 1,
                                          !.objs[k].data = Append(@, size)]))

NextPreRoll ==
  \/ RecordClickPreRoll(MaxStarts)
  \/ CountdownTickPreRoll
  \/ SongTimerFires
  \/ ToggleClick
  \/ AudioEnded
  \/ TimeUpdate
  \/ RecorderStoppedPreRoll(ChunkSizes)
  \/ FileChange
  \/ GumSettles

SpecPreRoll == Init /\ [][NextPreRoll]_vars


\* ===================== main.js: the modal viewer =====================

\* openModal(index): nothing when recordingsList has no entry at index
openModal(s, index) ==
  IF index + 1 \notin 1..Len(s.recordingsList) THEN s
  ELSE [s EXCEPT !.currentModalIndex = index]

\* closeModal()
closeModal(s) == [s EXCEPT !.currentModalIndex = -1]

\* nextModal(): wraps around at the end
nextModal(s) ==
  IF s.currentModalIndex = -1 THEN s
  ELSE LET nextIndex == s.currentModalIndex + 1 IN
       openModal(s, IF nextIndex >= Len(s.recordingsList) THEN 0 ELSE nextIndex)

\* prevModal(): wraps around to the last
prevModal(s) ==
  IF s.currentModalIndex = -1 THEN s
  ELSE LET prevIndex == s.currentModalIndex - 1 IN
       openModal(s, IF prevIndex < 0 THEN Len(s.recordingsList) - 1 ELSE prevIndex)

\* click on gallery item j: openModal with the index bound at its creation
ItemClick ==
  \E j \in 1..Len(recordingsContainer) :
    /\ currentModalIndex = -1
    /\ Commit(openModal(Begin(S, "openModal"), recordingsContainer[j].recIndex))

\* close button, or a tap on the overlay outside the video
CloseModalClick ==
  /\ currentModalIndex # -1
  /\ Commit(closeModal(Begin(S, "closeModal")))

\* swipe inside the modal: left for the next recording, right for the previous
ModalSwipe ==
  /\ currentModalIndex # -1
  /\ \/ Commit(nextModal(Begin(S, "nextModal")))
     \/ Commit(prevModal(Begin(S, "prevModal")))

\* The gallery's buttons are used while the modal is closed; timers and
\* recorder events run whether it is open or not.
DeleteAllClosed == currentModalIndex = -1 /\ DeleteAllClick
DownloadAllClosed == currentModalIndex = -1 /\ DownloadAllClick

NextModal ==
  \/ ItemClick
  \/ CloseModalClick
  \/ ModalSwipe
  \/ DeleteAllClosed
  \/ DownloadAllClosed
  \/ DownloadTimer
  \/ RecordClickSerial
  \/ CountdownTick
  \/ RecorderStopped({1})
  \/ FirstFileChange
  \/ GumSettles

SpecModal == Init /\ [][NextModal]_vars

\* ===================== part_001: the earliest revision =====================

\* handleFileSelection(event) of part_001: f = 0 is a change event with no file
handleFileSelectionFirst(s, f) ==
  IF f = 0 THEN [s EXCEPT !.audioPlayer.src = 0]
  ELSE [s EXCEPT !.audioPlayer.src = f,
                 !.audioPlayer.paused = TRUE,
                 !.audioPlayer.currentTime = 0,
                 !.recordButton.disabled = FALSE]

\* toggleMic() of part_001
toggleMic(s) == [s EXCEPT !.micEnabled = ~@]

\* startRecording() of part_001 up to its await of audioPlayer.play().  Every
\* call that passes the two checks creates an AudioContext (entry k of objs).
\* createMediaElementSource(audioPlayer) throws InvalidStateError when the
\* element is already the source of a node of an earlier context; bound
\* records that this call attached the element.
startRecordingFirst(s) ==
  IF s.cameraStream = 0 THEN [s EXCEPT !.err = "alert:camera"]
  ELSE IF s.audioPlayer.src = 0 THEN [s EXCEPT !.err = "alert:song"]
  ELSE
    LET k == Len(s.objs) + 1
        attached == \E j \in 1..Len(s.objs) : s.objs[j].bound
        s1 == [s EXCEPT !.recordedChunks = <<>>,
                        !.audioContext = k,
                        !.objs = Append(@, [newObjects(s) EXCEPT !.rec = "none",
                                                                 !.bound = ~attached,
                                                                 !.enc = "unset"])]
    IN IF attached THEN [s1 EXCEPT !.err = "InvalidStateError"]
       ELSE [s1 EXCEPT !.destinationNode = k,
                       !.audioPlayer.currentTime = 0,
                       !.audioPlayer.paused = FALSE,
                       !.pendingPlay = Append(@, k)]

\* mergeAudioStreams(stream1, stream2): a second AudioContext, held by no
\* variable of the script
mergeAudioStreams(s, k) == [s EXCEPT !.objs[k].mergeCtx = "open"]

\* startRecording() of part_001 after the await, for the i-th pending call:
\* merge the mic when enabled, build the recorder and start it
startRecordingResumeFirst(s, i) ==
  LET k == s.pendingPlay[i]
      s1 == [s EXCEPT !.pendingPlay = RemoveAt(@, i)]
      s2 == IF s.micEnabled THEN mergeAudioStreams(s1, k) ELSE s1
  IN [s2 EXCEPT !.objs[k].rec = "recording",
                !.objs[k].enc = "preferred",
                !.mediaRecorder = k,
                !.isRecording = TRUE,
                !.recordButton.recording = TRUE]

\* stopRecording() of part_001
stopRecordingFirst(s) ==
  [stopRecorder(s) EXCEPT !.audioPlayer.paused = TRUE,
                          !.audioPlayer.currentTime = 0,
                          !.isRecording = FALSE,
                          !.recordButton.recording = FALSE,
                          !.objs = [k \in DOMAIN @ |-> [@[k] EXCEPT !.stopped = TRUE]]]

\* handleStop() of part_001: the blob, the gallery item with its download
\* link, the switch to the gallery.  No context is closed and no reference
\* is reset.
handleStopFirst(s) ==
  LET url == s.urls + 1 IN
  [s EXCEPT !.urls = url,
            !.recordingsContainer = Append(@, [url |-> url, recIndex |-> 0])]

\* record-button click listener of part_001
RecordClickFirst(limit) ==
  /\ ~recordButton.disabled
  /\ isRecording \/ Len(objs) < limit
  /\ Commit(IF ~isRecording THEN startRecordingFirst(Begin(S, "startRecording"))
            ELSE stopRecordingFirst(Begin(S, "stopRecording")))

\* the promise of audioPlayer.play() settles, fulfilled or rejected
PlaySettles ==
  \E i \in 1..Len(pendingPlay) :
    Commit(startRecordingResumeFirst(Begin(S, "play"), i))

RecorderStoppedFirst(sizes) ==
  \E k \in Ids, size \in sizes :
    /\ objs[k].rec = "stopping"
    /\ LET s == ondataavailable(Begin(S, "handleStop"), k, size) IN
       Commit(handleStopFirst([s EXCEPT !.objs[k].rec = "finalized",
                                        !.objs[k].finals = @ + 1,
                                        !.objs[k].data = Append(@, size)]))

ToggleMicClick == Commit(toggleMic(Begin(S, "toggleMic")))

FileChangeFirst ==
  \E f \in FileChoices :
    Commit(handleFileSelectionFirst(Begin(S, "handleFileSelection"), f))

\* The tasks of part_001.  Its initial initCamera() (375), the settling of
\* getUserMedia (70-93), the recorder's stop() (219-221) and ondataavailable
\* (203-207) read as in main.js and are shared with it.
NextFirst ==
  \/ RecordClickFirst(MaxStarts + 1)
  \/ PlaySettles
  \/ RecorderStoppedFirst(ChunkSizes)
  \/ ToggleMicClick
  \/ FileChangeFirst
  \/ GumSettles

SpecFirst == Init /\ [][NextFirst]_vars

\* ===================== claims =====================

recording == {k \in Ids : objs[k].rec = "recording"}
openContexts == {k \in Ids : objs[k].ctx = "open"}
urlsOf(q) == [i \in 1..Len(q) |-> q[i].url]
Min(a, b) == IF a < b THEN a ELSE b
lastN(q, n) == SubSeq(q, Len(q) - Min(n, Len(q)) + 1, Len(q))

\* C1 (main.js, Spec): at most one Capture Session is active: never more than
\* one started, not-yet-stopped MediaRecorder and never more than one open
\* AudioContext, also when record clicks arrive during a countdown.
C1_AtMostOneSession ==
  /\ Cardinality(recording) <= 1
  /\ Cardinality(openContexts) <= 1

\* C2 (main.js, Spec): a recorder that was started and then followed by a
\* stopRecording() has its stop requested, and handleStop runs exactly once
\* for it: no run while the stop event is pending, one run once it is
\* finalized.
C2_OneArtifactPerStartStop ==
  \A k \in Ids :
    objs[k].stopped =>
      /\ objs[k].rec \in {"stopping", "finalized"}
      /\ objs[k].finals = IF objs[k].rec = "finalized" THEN 1 ELSE 0

\* C3 (main.js, Spec): while recording with the audio graph built, exactly one
\* of the micro gain and the song gain is 1 and the other is 0.
C3_GainsExclusive ==
  (isRecording /\ microGain # 0 /\ songGain # 0) =>
    \/ objs[microGain].micro = 1 /\ objs[songGain].song = 0
    \/ objs[microGain].micro = 0 /\ objs[songGain].song = 1

\* C3 witness: a recording whose source was toggled back to the mic
C3_Witness ==
  /\ isRecording /\ last = "toggleSource" /\ err = "none"
  /\ microGain # 0 /\ songGain # 0
  /\ objs[microGain].micro = 1 /\ objs[songGain].song = 0

\* C4 (part_002, SpecPreRoll): stopRecording() cancels the pending
\* setTimeout(startSong): no recording that has been stopped still has its
\* timer pending.
C4_StopCancelsTimer ==
  \A k \in Ids : objs[k].stopped => k \notin songTimers

\* C5 (part_002, SpecPreRoll): the timer callback of a recording that has been
\* stopped is a no-op: no exception, no gain change, neither music handle
\* started, toggle button not enabled, no interval created, recordingSource
\* unchanged.
C5_LateStartSongNoop ==
  [][\A k \in songTimers :
       (k \notin songTimers' /\ last' = "startSong" /\ objs[k].stopped) =>
         /\ err' = "none"
         /\ UNCHANGED <<objs, audioPlayer, toggleSourceBtn, timerInterval,
                        intervals, recordingSource>>]_vars

\* C6 (toggleSource, checked on SpecPreRoll where the button can be enabled
\* while idle): a toggleSource() call while isRecording is false changes
\* neither recordingSource, the gains, the icons nor the playback state and
\* raises nothing.
C6_ToggleIdleNoop ==
  [][(last' = "toggleSource" /\ ~isRecording) =>
       /\ err' = "none"
       /\ UNCHANGED <<recordingSource, objs, microGain, songGain, toggleIcon,
                      audioPlayer, songPlaying, isRecording>>]_vars

\* C6 witness: toggleSource() has run while nothing was recording
C6_Witness == last = "toggleSource" /\ ~isRecording

\* C7 (main.js, Spec): during a recording, after the switch to the song, each
\* toggleSource() flips the source and swaps the gains: after an even number
\* of toggles the song is recorded (songGain 1, microGain 0), after an odd
\* number the mic (microGain 1, songGain 0).
C7_ToggleParity ==
  (last = "toggleSource" /\ isRecording) =>
    /\ err = "none"
    /\ microGain # 0 /\ songGain # 0
    /\ toggles = 0 =>
         /\ recordingSource = "song"
         /\ objs[songGain].song = 1 /\ objs[microGain].micro = 0
    /\ toggles = 1 =>
         /\ recordingSource = "mic"
         /\ objs[microGain].micro = 1 /\ objs[songGain].song = 0

\* C7 witness: two toggles in a row have returned to the song
C7_Witness ==
  /\ last = "toggleSource" /\ isRecording /\ toggles = 0
  /\ recordingSource = "song" /\ objs[microGain].switched

\* C8 (checked on part_002, SpecPreRoll): the toggle button is enabled only
\* while recording and after startSong has run for the current recording.
C8_ToggleOnlyAfterSwitch ==
  ~toggleSourceBtn.disabled =>
    /\ isRecording
    /\ mediaRecorder # 0
    /\ objs[mediaRecorder].switched

\* C9 (main.js, SpecGallery): the gallery container and recordingsList never
\* hold more than 10 entries, and each handleStop leaves exactly the 10 most
\* recent recordings, in insertion order: an 11th evicts the oldest only.
C9_GalleryBounded ==
  [][/\ Len(recordingsList') <= GalleryLimit
     /\ Len(recordingsContainer') <= GalleryLimit
     /\ (last' = "handleStop" /\ urls' # urls) =>
          LET kept == lastN(Append(urlsOf(recordingsList), urls'), GalleryLimit) IN
          /\ urlsOf(recordingsList') = kept
          /\ urlsOf(recordingsContainer') = kept]_vars

\* C9 witness: the 11th recording has been added and the first is gone
C9_Witness ==
  /\ last = "handleStop" /\ urls = GalleryLimit + 1
  /\ Len(recordingsList) = GalleryLimit
  /\ recordingsList[1].url = 2

\* C10 (main.js, SpecCamera): once every getUserMedia request has settled and
\* the last one was granted, the stream held in cameraStream is the only one
\* with live tracks.
C10_OneLiveStream ==
  (gum = <<>> /\ last = "initCamera" /\ err = "none") =>
    {i \in 1..Len(streams) : streams[i].live} = {cameraStream}

\* C11 (main.js, SpecCamera): once every getUserMedia request has settled, all
\* of them granted, the stream held in cameraStream is the one the latest
\* request asked for: its facing mode is currentFacing.
C11_LatestRequestKept ==
  (gum = <<>> /\ ~gumRefused /\ cameraStream # 0) =>
    streams[cameraStream].facing = currentFacing

\* C12 (main.js, SpecCamera): after a getUserMedia request has failed,
\* cameraStream is null or a stream whose tracks are live, never a stream
\* whose tracks were stopped.
C12_NoStaleStream ==
  (last = "initCamera" /\ err = "alert:camera") =>
    cameraStream = 0 \/ streams[cameraStream].live

\* every variable of the program (all but the history variables)
programVars ==
  <<cameraStream, currentFacing, streams, gum, isRecording, mediaRecorder,
    recordedChunks, audioContext, microSource, songSource, microGain,
    songGain, destinationNode, timerInterval, recordingStartTime,
    selectedFileName, songPlaying, recordingSource, songClone, objs,
    intervals, audioPlayer, recordButton, toggleSourceBtn, fileInput,
    toggleIcon, countdownOverlay, countdowns, songTimers, downloads,
    recordingsList, recordingsContainer, urls, currentModalIndex,
    micEnabled, pendingPlay>>

\* C13 (main.js, SpecNoFile): startRecording() called while idle with no file
\* selected raises a prompt and changes nothing: no countdown, no playback,
\* no AudioContext or MediaRecorder, isRecording, recordedChunks and
\* recordingStartTime as before, no pending work that could yield an artifact.
C13_NoFileNoChange ==
  [][(last' = "startRecording" /\ audioPlayer.src = 0 /\ ~isRecording) =>
       /\ err' \in {"alert:song", "alert:camera"}
       /\ UNCHANGED programVars]_vars

\* C13 witness: the prompt for a song has been raised
C13_Witness ==
  /\ last = "startRecording" /\ err = "alert:song"
  /\ audioPlayer.src = 0 /\ cameraStream # 0

\* C14 (main.js, SpecStart): when the resumed startRecording() executes
\* mediaRecorder.start() (a new recorder appears), cameraStream is a stream
\* with live tracks and audioPlayer.src is not empty.
C14_PreconditionsAtStart ==
  [][Len(objs') > Len(objs) =>
       /\ cameraStream # 0
       /\ streams[cameraStream].live
       /\ audioPlayer.src # 0]_vars

\* C15 (main.js, SpecAuto): a session the user neither stops nor toggles is
\* eventually stopped by the end of the music, and every recorder started so
\* far has then produced exactly one artifact.
C15_AutoStop ==
  isRecording ~> (~isRecording /\ \A k \in Ids : objs[k].finals = 1)

\* C16 (part_002, SpecPreRoll): a recorder stopped inside the pre-roll window
\* (stop requested, startSong not yet run for it) keeps microGain 1 and
\* songGain 0 until its finalize callback has run, and that callback runs
\* exactly once for it.
C16_PreRollStopMicOnly ==
  [][\A k \in Ids :
       (objs[k].rec = "stopping" /\ ~objs[k].switched) =>
         /\ objs'[k].micro = 1
         /\ objs'[k].song = 0
         /\ objs'[k].finals = IF objs'[k].rec = "finalized" THEN 1 ELSE 0]_vars

\* C17 (main.js, Spec): once handleStop has run and no start is in progress
\* (nothing recording in the script's view, no countdown pending), every
\* AudioContext created so far is closed, no MediaRecorder is still
\* recording, the graph, recorder and clone variables are null and
\* timerInterval is null.
C17_ResourcesReleased ==
  (last = "handleStop" /\ ~isRecording /\ countdowns = <<>>) =>
    /\ openContexts = {}
    /\ recording = {}
    /\ audioContext = 0 /\ microSource = 0 /\ songSource = 0
    /\ microGain = 0 /\ songGain = 0 /\ destinationNode = 0
    /\ mediaRecorder = 0 /\ songClone = 0
    /\ timerInterval = 0

\* C18 (stopRecording, checked on part_002, SpecPreRoll): between the return
\* of stopRecording() and the next record-start (not recording, no countdown
\* pending, a session has been made) neither the visible player nor a
\* recording clone is playing, and all are at position 0.
C18_PlaybackHalted ==
  (~isRecording /\ countdowns = <<>> /\ Ids # {}) =>
    /\ audioPlayer.paused /\ audioPlayer.currentTime = 0
    /\ \A k \in Ids : objs[k].clone = "paused" /\ objs[k].cloneTime = 0

\* C19 (main.js, Spec): toggleSource() leaves the visible player's paused
\* state, muted flag and position as they were, and from the automatic
\* switch until the stop (recording, startSong has switched the current
\* graph) the visible player is playing unmuted, whatever recordingSource is.
C19_MonitoringIndependent ==
  [][/\ last' = "toggleSource" =>
          /\ audioPlayer'.paused = audioPlayer.paused
          /\ audioPlayer'.muted = audioPlayer.muted
          /\ audioPlayer'.currentTime = audioPlayer.currentTime
     /\ (isRecording' /\ mediaRecorder' # 0 /\ objs'[mediaRecorder'].switched) =>
          /\ ~audioPlayer'.paused
          /\ ~audioPlayer'.muted]_vars

\* C20 (main.js, Spec): the duration stored with the artifact of recorder k is
\* computed from the start timestamp of session k (the recordingStartTime
\* set when recorder k was started, after the countdown), not from another
\* session's.
C20_DurationOfOwnSession ==
  [][\A k \in Ids :
       (objs[k].rec = "stopping" /\ objs'[k].rec = "finalized") =>
         /\ recordingsList' # <<>>
         /\ recordingsList'[Len(recordingsList')].start = k]_vars

\* C21 (main.js, Spec): the task that begins capture leaves the microphone as
\* the recorded source (microGain 1, songGain 0, not yet switched), so that
\* the mic is recorded for a first interval before the song replaces it.
C21_MicFirst ==
  [][Len(objs') > Len(objs) =>
       /\ objs'[Len(objs')].micro = 1
       /\ objs'[Len(objs')].song = 0
       /\ ~objs'[Len(objs')].switched]_vars

\* the chunks of recorder k an artifact must hold: one entry per non-empty
\* chunk delivered, in the order of delivery
chunksOf(k, data) == [i \in 1..Len(SelectSeq(data, LAMBDA z : z > 0)) |-> k]

\* C22 (main.js, Spec): the artifact handleStop assembles for recorder k is
\* the sequence of the non-empty chunks recorder k delivered, in order, and
\* holds nothing else.
C22_ArtifactIsOwnChunks ==
  [][\A k \in Ids :
       (objs[k].rec = "stopping" /\ objs'[k].rec = "finalized") =>
         /\ recordingsList' # <<>>
         /\ recordingsList'[Len(recordingsList')].blob = chunksOf(k, objs'[k].data)]_vars

\* C23 (main.js, SpecStray): a chunk a recorder delivers after its session
\* was finalized raises no error and is in no later artifact: every artifact
\* holds chunks of its own recorder only.
C23_StrayIgnored ==
  [][/\ last' = "dataavailable" => err' = "none"
     /\ \A k \in Ids :
          (objs[k].rec = "stopping" /\ objs'[k].rec = "finalized") =>
            LET blob == recordingsList'[Len(recordingsList')].blob IN
            \A i \in 1..Len(blob) : blob[i] = k]_vars

\* a recorder that a stopRecording() followed has had its stop requested and
\* has been finalized at most once, exactly once when its stop event is handled
oneArtifact(o) ==
  o.stopped => /\ o.rec \in {"stopping", "finalized"}
               /\ o.finals = IF o.rec = "finalized" THEN 1 ELSE 0

\* C24 (main.js, SpecBuild): when the preferred profile is refused and the
\* default one accepted, the session proceeds as usual: the task that builds
\* it ends with the recorder recording, isRecording true and no exception,
\* and a later stop yields exactly one artifact.  The start is aborted (no
\* recorder, isRecording unchanged) only when both constructors throw.
C24_EncoderFallback ==
  [][\A k \in 1..Len(objs') :
       /\ objs'[k].enc = "default" =>
            /\ objs'[k].rec # "none"
            /\ oneArtifact(objs'[k])
            /\ k > Len(objs) =>
                 /\ isRecording' /\ mediaRecorder' = k /\ err' = "none"
                 /\ objs'[k].rec = "recording"
       /\ objs'[k].rec = "none" => objs'[k].enc = "none"]_vars

\* C24 witness: a session recorded with the default profile was finalized
C24_Witness ==
  \E k \in Ids : objs[k].enc = "default" /\ objs[k].finals = 1 /\ ~isRecording

\* C25 (main.js, SpecBuild): when createMediaElementSource throws, the session
\* is not aborted: the building task starts capture with songSource null and
\* runs the switch without exception, toggles raise nothing, a later stop
\* finalizes exactly one artifact, and the finalize closes the context and
\* nulls the graph.
C25_UnboundSongPath ==
  [][\A k \in 1..Len(objs') :
       ~objs'[k].bound =>
         /\ objs'[k].enc # "unset"
         /\ objs'[k].enc # "none" =>
              /\ oneArtifact(objs'[k])
              /\ k > Len(objs) =>
                   /\ isRecording' /\ songSource' = 0 /\ err' = "none"
                   /\ objs'[k].rec = "recording" /\ objs'[k].switched
         /\ (last' = "toggleSource" /\ mediaRecorder' = k) => err' = "none"
         /\ (k <= Len(objs) /\ objs[k].rec = "stopping" /\ objs'[k].rec = "finalized") =>
              /\ objs'[k].ctx = "closed"
              /\ audioContext' = 0 /\ microGain' = 0 /\ songGain' = 0
              /\ mediaRecorder' = 0 /\ songClone' = 0]_vars

\* C25 witness: a session with an unbound song path was finalized and torn down
C25_Witness ==
  /\ last = "handleStop"
  /\ \E k \in Ids : ~objs[k].bound /\ objs[k].finals = 1 /\ objs[k].ctx = "closed"

\* C26 (main.js, SpecNotReady): after a refused acquisition with no
\* stream ever held, the record and toggle buttons are disabled and no
\* session exists or is being started.
C26_ControlsNotReady ==
  (gumRefused /\ cameraStream = 0) =>
    /\ recordButton.disabled
    /\ toggleSourceBtn.disabled
    /\ ~isRecording /\ countdowns = <<>> /\ objs = <<>>

\* C27 (main.js, SpecReuse): initCamera() without force while a stream is
\* held, called directly or reached through showRecorder or handleStop,
\* requests no stream, stops no track and leaves cameraStream and
\* currentFacing as they were.
C27_HeldStreamReused ==
  [][(last' \in {"initCameraCall", "showRecorder", "handleStop"} /\ cameraStream # 0) =>
       /\ gum' = gum
       /\ streams' = streams
       /\ cameraStream' = cameraStream
       /\ currentFacing' = currentFacing]_vars

\* C27 witness: initCamera() ran on a held live stream after a recording
\* was finalized through handleStop
C27_Witness ==
  /\ last = "initCameraCall"
  /\ cameraStream # 0 /\ streams[cameraStream].live
  /\ gum = <<>>
  /\ \E k \in Ids : objs[k].finals = 1

\* C28 (main.js, SpecAuto): on the step in which a session's graph is switched
\* to the song, the visible player and the session's duplicate handle are
\* both at position 0 and both playing.
C28_HandlesSynchronized ==
  [][\A k \in 1..Len(objs') :
       (objs'[k].switched /\ (k > Len(objs) \/ ~objs[k].switched)) =>
         /\ audioPlayer'.currentTime = 0 /\ ~audioPlayer'.paused
         /\ objs'[k].cloneTime = 0 /\ objs'[k].clone = "playing"]_vars

\* C29 (main.js, SpecStart): between mediaRecorder.start() and the
\* finalization of a session, the device stream the session was built on is
\* neither stopped nor replaced as the held stream.
C29_SessionStreamKept ==
  [][\A k \in Ids :
       (objs[k].rec \in {"recording", "stopping"} /\ objs[k].stream # 0) =>
         /\ streams[objs[k].stream].live => streams'[objs[k].stream].live
         /\ cameraStream = objs[k].stream => cameraStream' = cameraStream]_vars

\* C30 (main.js, SpecStop): a stop request that finds nothing recording
\* changes nothing: stopRecording() called with isRecording false leaves
\* every program variable as it was and raises no error, an ended event
\* with isRecording false stops and finalizes nothing, a finalized recorder
\* stays finalized, no recorder is finalized twice, and an artifact is added
\* only by the finalization of a stopping recorder.
C30_StopIdempotent ==
  [][/\ (last' = "stopRecording" /\ ~isRecording) =>
          /\ err' = "none"
          /\ UNCHANGED programVars
     /\ (last' = "ended" /\ ~isRecording) =>
          /\ err' = "none"
          /\ UNCHANGED <<objs, recordingsList, recordedChunks, isRecording, mediaRecorder>>
     /\ \A k \in Ids :
          /\ objs'[k].finals <= 1
          /\ objs[k].rec = "finalized" =>
               objs'[k].rec = "finalized" /\ objs'[k].finals = objs[k].finals
     /\ recordingsList' # recordingsList =>
          \E k \in Ids : objs[k].rec = "stopping" /\ objs'[k].rec = "finalized"]_vars

\* C30 witness: stopRecording() ran after every session had been stopped and
\* finalized
C30_Witness ==
  /\ last = "stopRecording" /\ ~isRecording
  /\ objs # <<>>
  /\ \A k \in Ids : objs[k].stopped /\ objs[k].rec = "finalized" /\ objs[k].finals = 1

\* C31 (main.js, SpecRestart): the finalization of recorder k assembles chunks of
\* recorder k only, uses the start timestamp of session k, and the graph,
\* recorder and clone references it nulls are those of session k.
C31_FinalizeOwnSession ==
  [][\A k \in Ids :
       (objs[k].rec = "stopping" /\ objs'[k].rec = "finalized") =>
         /\ recordingsList' # <<>>
         /\ LET entry == recordingsList'[Len(recordingsList')] IN
              /\ entry.start = k
              /\ \A i \in 1..Len(entry.blob) : entry.blob[i] = k
         /\ audioContext \in {0, k} /\ mediaRecorder \in {0, k}
         /\ songClone \in {0, k}
         /\ microGain \in {0, k} /\ songGain \in {0, k}]_vars

\* C32 (main.js, Spec): while the script holds an audio graph, the tracked
\* source, the two gains and the toggle icon agree: source "song" with song
\* gain 1, mic gain 0 and the note icon, or source "mic" with mic gain 1,
\* song gain 0 and the mic icon.
C32_SourceGainsIconAgree ==
  (microGain # 0 /\ songGain # 0) =>
    \/ /\ recordingSource = "song" /\ toggleIcon = "note"
       /\ objs[songGain].song = 1 /\ objs[microGain].micro = 0
    \/ /\ recordingSource = "mic" /\ toggleIcon = "mic"
       /\ objs[microGain].micro = 1 /\ objs[songGain].song = 0

\* C32 witness: a toggle during the music phase put the mic in the recording
C32_Witness ==
  /\ last = "toggleSource" /\ isRecording
  /\ microGain # 0 /\ songGain # 0
  /\ objs[songGain].switched /\ recordingSource = "mic"

\* C33 (main.js, SpecRestart): whenever isRecording is true the script holds
\* both gain nodes.
C33_GainsHeldWhileRecording ==
  isRecording => (microGain # 0 /\ songGain # 0)

\* C34 (main.js, SpecOverlap): a countdown starts at three, loses one per tick and
\* ends, its interval cleared, at its third tick; a session is built, its
\* start timestamp taken and its recorder started only on the step that ends
\* a countdown; and the countdown overlay is not displayed while any
\* recorder is capturing.
C34_CaptureAfterCountdown ==
  [][/\ Len(countdowns') > Len(countdowns) =>
          countdowns' = Append(countdowns, CountdownSeconds)
     /\ Len(countdowns') = Len(countdowns) =>
          \A i \in 1..Len(countdowns) :
            countdowns'[i] \in {countdowns[i], countdowns[i] - 1} /\ countdowns'[i] > 0
     /\ Len(countdowns') < Len(countdowns) =>
          \E i \in 1..Len(countdowns) :
            countdowns[i] = 1 /\ countdowns' = RemoveAt(countdowns, i)
     /\ Len(objs') > Len(objs) =>
          /\ Len(countdowns') < Len(countdowns)
          /\ recordingStartTime' = Len(objs')
     /\ recordingStartTime' # recordingStartTime => Len(countdowns') < Len(countdowns)
     /\ countdownOverlay' = "flex" =>
          \A k \in 1..Len(objs') : objs'[k].rec # "recording"]_vars

\* C35 (main.js, SpecGallery): the gallery items and recordingsList have the
\* same length and order, and the index bound to each item's click handler
\* designates that item's own entry of recordingsList.
C35_GalleryAligned ==
  /\ Len(recordingsContainer) = Len(recordingsList)
  /\ \A j \in 1..Len(recordingsContainer) :
       /\ recordingsContainer[j].url = recordingsList[j].url
       /\ recordingsContainer[j].recIndex + 1 \in 1..Len(recordingsList)
       /\ recordingsList[recordingsContainer[j].recIndex + 1].url = recordingsContainer[j].url

\* C36 (main.js, SpecGallery): a download-all click arms one download per
\* gallery entry, in gallery order; its timers trigger them one at a time;
\* and the final clear removes only entries whose download was triggered.
C36_ClearOnlyDownloaded ==
  [][/\ Len(downloads') > Len(downloads) =>
          downloads'[Len(downloads')] = [urls |-> urlsOf(recordingsList), done |-> 0]
     /\ (last' = "downloadTimer" /\ Len(downloads') = Len(downloads)) =>
          \E b \in 1..Len(downloads) :
            /\ downloads'[b].done = downloads[b].done + 1
            /\ recordingsList' = recordingsList
     /\ (last' = "downloadTimer" /\ Len(downloads') < Len(downloads)) =>
          \A i \in 1..Len(recordingsList) :
            \E b \in 1..Len(downloads) :
              \E j \in 1..downloads[b].done :
                downloads[b].urls[j] = recordingsList[i].url]_vars

\* C37 (part_002, SpecPreRoll; main.js, Spec): the song-timer handle is set only while
\* isRecording is true, at most one song-timer interval is live, and none is
\* live while isRecording is false.
C37_SongTimerOnlyWhileRecording ==
  /\ timerInterval # 0 => isRecording
  /\ Cardinality(intervals) <= 1
  /\ ~isRecording => intervals = {}

\* C38 (part_001, SpecFirst): once a recording has been finalized by
\* handleStop, neither the AudioContext of its startRecording nor that of
\* its mergeAudioStreams is open.
C38_ContextsClosedAfterFinalize ==
  \A k \in Ids :
    objs[k].finals > 0 => (objs[k].ctx # "open" /\ objs[k].mergeCtx # "open")

\* C39 (main.js, SpecModal): currentModalIndex is null or the index of an
\* existing entry of recordingsList, and from an open modal nextModal
\* followed by prevModal leads back to the same index.
C39_ModalIndexValid ==
  currentModalIndex # -1 =>
    /\ currentModalIndex + 1 \in 1..Len(recordingsList)
    /\ prevModal(nextModal(S)).currentModalIndex = currentModalIndex

=============================================================================
